---- MODULE Spec2Model ----
(***************************************************************************)
(* A model of Pydra's capture-file pipeline: the import of a PresentMon-   *)
(* family capture (FrameView, OCAT), the integrity state machine, the      *)
(* time-axis window, the statistics cache, format detection, polling-rate  *)
(* inference, the stutter heuristic and the column downcast.               *)
(***************************************************************************)
EXTENDS Integers, Sequences, FiniteSets, TLC

VARIABLES
    pc,         \* position of the import: new, constructed, parsed, loaded, setup, failed
    app,        \* application.app_name() handed to the parser by FileLoader
    version,    \* version handed to the parser by FileLoader
    faults,     \* the file's rows: what is wrong with each frame (file content)
    onDisk,     \* whether the file can still be opened at its path
    hasProps,   \* whether the metadata store holds a Properties record for the hash
    file,       \* the CaptureFile object (its attributes) and the metadata record
    last,       \* the operation performed by the last step, with its arguments
    settings,   \* the configuration values the statistics read
    plot,       \* the PlotObject's statistics, section hashes and cache counters
    det,        \* one run of FileLoader.infer_format: its inputs, locals and result
    poll,       \* one parser constructor calling infer_polling_rate
    heur,       \* one call of CaptureFile.stutter_heuristic
    col,        \* one column passed to CaptureFile.downcast_col
    pool,       \* the thread pool's import workers and the PlotObject registries
    alias,      \* one look-up of a generic phrase in a FrameView alias table
    insp        \* one FrameView file through its inspection runs

fileVars == <<pc, app, version, faults, onDisk, hasProps, file, last>>
statVars == <<settings, plot>>

pureVars == <<poll, heur, col, pool, alias, insp>>

vars == <<fileVars, statVars, det, pureVars>>

-----------------------------------------------------------------------------
(* Bounds *)

MaxRows == 3
MaxCalls == 3
MaxPrints == 2
MaxStamps == 3
MaxTick == 2
MaxFrames == 4
MaxFrametime == 4
MaxCells == 2
MaxRequests == 3
MaxIOThreads == 2

-----------------------------------------------------------------------------
(* gui/plotobject.py: the PlotObject's statistics state *)

Sections ==
    {"Time", "Display", "Performance", "Percentiles", "Relative Percentiles",
     "Stutter", "Hardware"}

\* General/DecimalPlaces, Statistics/PercentileMethod = "Exclusive" (as 0/1),
\* the multiplier of General/TimeScale and StutterHeuristic/StutterDeltaMs.
DefaultSettings ==
    [DecimalPlaces |-> 2, Exclusive |-> 0, TimeScale |-> 1, StutterDeltaMs |-> 4]

SettingValues ==
    [DecimalPlaces |-> {2, 3}, Exclusive |-> {0, 1}, TimeScale |-> {1},
     StutterDeltaMs |-> {4, 8}]

\* No cell of a section has been set: every cell shows "N/A".
NA == <<>>

\* PlotObject after the assignments of full_object_setup, with the class-wide
\* _cache_hits counters, [hits, total] per section. stutter_data belongs to
\* the file: the window file.stutter() computed its data for, once computed.
\* file tells whether self.file has been assigned; _instances and
\* _valid_instances whether the class-wide registries hold the object.
NewPlot ==
    [_hashes |-> [s \in Sections |-> 0],
     _cache_hits |-> [s \in Sections |-> <<0, 0>>],
     stats |-> [s \in Sections \cup {"Capture"} |-> NA],
     stutter_data |-> NA,
     file |-> FALSE, _instances |-> FALSE, _valid_instances |-> FALSE]

\* No run of FileLoader.infer_format is under way.
NoDetection ==
    [phase |-> "idle", readable |-> TRUE, headers |-> {}, table |-> <<>>,
     header_set |-> {}, i |-> 1, application |-> 0, percent_matches |-> <<0, 1>>,
     result |-> "none"]

\* No parser constructor is running. time holds the timestamps of the log's
\* date column in seconds; rate is the returned polling rate as a fraction;
\* trims counts the trims and resets of the time axis after the setup.
NoPolling ==
    [phase |-> "idle", parser |-> "", perf |-> FALSE, parses |-> TRUE,
     time |-> <<>>, integrity |-> "Unset", called_with |-> "Unset",
     rate |-> <<0, 1>>, trims |-> 0]

\* No call of stutter_heuristic is under way.
NoHeuristic ==
    [phase |-> "idle", frametimes |-> <<>>, window_size |-> 1,
     delta_ms |-> 0, delta_pct |-> 0, test_for_osc |-> FALSE,
     kind |-> "none", stutter_frames |-> <<>>]

\* OscillationHeuristic/OscDeltaMs, OscDeltaPct and OscWarnPct.
OscDeltaMs == 4
OscDeltaPct == 20
OscWarnPct == 3

\* No column is being downcast.
NoColumn ==
    [phase |-> "idle", dtype |-> "", first_is_whole |-> TRUE, data |-> <<>>,
     index |-> 0, type |-> "", cast |-> <<>>, recast |-> FALSE]

\* No import has been requested: no worker exists, both class-wide registries
\* the list of loaded files and the legend order are empty. writes records
\* each assignment into a registry with the thread that performed it.
NoPool ==
    [workers |-> <<>>, _instances |-> {}, _valid_instances |-> {},
     legend_order |-> <<>>, listed |-> {}, writes |-> {}]

\* No phrase is being looked up.
NoAlias == [phase |-> "idle", version |-> "", phrase |-> "", header |-> ""]

\* No FrameView file is being inspected. data holds the rows of the table,
\* fallbacks_in_use and inspection are the dicts of the object, Application
\* is properties["Application"] and runs counts the trims.
NoInspection ==
    [phase |-> "idle", version |-> "", headers |-> {}, data |-> <<>>,
     offset |-> 0, height |-> 0, fallbacks_in_use |-> [k \in {} |-> ""],
     inspection |-> [k \in {} |-> FALSE], Application |-> <<>>, runs |-> 0]

PureIdle ==
    /\ poll = NoPolling /\ heur = NoHeuristic /\ col = NoColumn
    /\ pool = NoPool /\ alias = NoAlias /\ insp = NoInspection

-----------------------------------------------------------------------------
(* formats/integrity.py *)

Integrity ==
    {"Initialized", "Pending", "Ideal", "Dirty", "Partial", "Mangled", "Invalid"}

id(i) ==
    CASE i = "Initialized" -> 0 - 2
      [] i = "Pending" -> 0 - 1
      [] i = "Ideal" -> 0
      [] i = "Dirty" -> 1
      [] i = "Partial" -> 2
      [] i = "Mangled" -> 3
      [] i = "Invalid" -> 99

\* valid() without its lower limit: it also accepts the pre-validation states.
valid_without_floor(i) ==
    id(i) < 99

\* valid() without its upper limit: it also accepts an Invalid file.
valid_or_invalid(i) ==
    0 <= id(i)

valid(i) ==
    0 <= id(i) /\ id(i) < 99

-----------------------------------------------------------------------------
(* formats/capturefile.py: the integrity attribute and its signal *)

Path == "capture.csv"

\* The attribute has not been assigned yet (hasattr(self, "integrity") is False).
Unset == "Unset"

\* The same assignment with the comparison against the current value dropped.
setattr_always_emits(f, value) ==
    [f EXCEPT !.integrity = value,
              !.emitted = IF f.integrity # Unset
                          THEN Append(f.emitted, <<Path, value>>)
                          ELSE f.emitted,
              !.assigned = Append(f.assigned, <<f.integrity, value>>)]

\* CaptureFile.__setattr__ for name = "integrity". `assigned` lists the
\* assignments made so far by the import, or by the current operation on the
\* imported file, <<value before, value assigned>>, and `emitted` the events
\* the signal has emitted meanwhile.
setattr_integrity(f, value) ==
    IF f.integrity # Unset /\ value # f.integrity
    THEN [f EXCEPT !.integrity = value,
                   !.emitted = Append(f.emitted, <<Path, value>>),
                   !.assigned = Append(f.assigned, <<f.integrity, value>>)]
    ELSE [f EXCEPT !.integrity = value,
                   !.assigned = Append(f.assigned, <<f.integrity, value>>)]

frames(f) == f.height - f.offset

\* Rows of the visible window, data.loc[offset : height - 1], numbered from 1.
Window(f) == (f.offset + 1)..f.height

Rows == Len(faults)

-----------------------------------------------------------------------------
(* formats/presentmon.py, frameview.py, ocat.py: capture inspection *)

BaseItems ==
    {"Application Consistency", "Swapchain Address Consistency",
     "Runtime Consistency", "Runtime Validity", "Present Flag Consistency",
     "Sync Policy Consistency", "No Active Sync Policy", "Tearing is Possible",
     "No Dropped Frames", "Present Mode Consistency",
     "Hardware-Based Present Mode", "Display Change Validity",
     "Render Queue Depth"}

SecondGenItems ==
    {"Valid System Latency", "GPU Consistency", "CPU Consistency",
     "Resolution Consistency", "Resolution Validity", "Process ID Consistency"}

OcatItems ==
    {"Resolution Consistency", "Resolution Validity", "Process ID Consistency"}

_SECOND_GENERATION == {"1.1", "1.2", "1.4"}

FrameViewMajor10 ==
    {"Application Consistency", "Swapchain Address Consistency",
     "Runtime Consistency", "No Dropped Frames", "Present Mode Consistency",
     "Hardware-Based Present Mode"}

FrameViewMajor11 ==
    FrameViewMajor10 \cup
    {"GPU Consistency", "CPU Consistency", "Resolution Consistency",
     "Resolution Validity", "Process ID Consistency"}

OcatMajor ==
    {"Resolution Consistency", "Resolution Validity", "Application Consistency",
     "Swapchain Address Consistency", "Runtime Consistency",
     "Process ID Consistency", "No Dropped Frames", "Present Mode Consistency",
     "Hardware-Based Present Mode"}

MAJOR_INSPECTION_ITEMS(a, v) ==
    IF a = "OCAT" THEN OcatMajor
    ELSE IF v = "1.0" THEN FrameViewMajor10 ELSE FrameViewMajor11

\* The keys of the dict inspect_capture returns for this application/version.
InspectionKeys(a, v) ==
    IF a = "OCAT" THEN BaseItems \cup OcatItems
    ELSE IF v \in _SECOND_GENERATION THEN BaseItems \cup SecondGenItems
    ELSE BaseItems

\* What one frame's fault does to the per-frame columns:
\*   "dropped" Dropped is 1 (it is 0 on the other frames)
\*   "zeroft"  the frame time (MsBetweenPresents) is 0
\* Every other inspected column holds one nominal value on every frame.
Faults == {"none", "dropped", "zeroft"}

\* The items PresentMon.inspect_capture computes after the look-up data[0] of
\* the visible PresentMode column, and the ones second_gen_inspection and
\* ocat_inspection compute from the look-up data[0] of the Resolution column
\* on. The visible column is data.loc[offset : height - 1], which has no label
\* 0 once offset > 0: the look-up raises and these items keep their default.
AfterPresentModeLookup ==
    {"Hardware-Based Present Mode", "No Active Sync Policy", "Tearing is Possible",
     "Display Change Validity", "Render Queue Depth", "Runtime Validity",
     "No Dropped Frames"}

AfterResolutionLookup == {"Resolution Validity", "Process ID Consistency"}

\* The result of one inspection item over the visible window. With no headers
\* (a failed parse) or no rows every lookup fails and the item keeps
\* InspectionItem.default_result(), passed = False.
ItemPassed(f, item) ==
    IF ~f.headersRead \/ Window(f) = {} THEN FALSE
    ELSE IF f.offset > 0 /\ item \in AfterPresentModeLookup \cup AfterResolutionLookup
    THEN FALSE
    ELSE CASE item = "No Dropped Frames" ->
                 \A i \in Window(f) : faults[i] # "dropped"
           [] item = "Display Change Validity" ->
                 \A i \in Window(f) : faults[i] # "zeroft"
           [] item = "Render Queue Depth" ->
                 \A i \in Window(f) : faults[i] # "zeroft"
           [] OTHER -> TRUE

inspect_capture(f) ==
    [item \in InspectionKeys(app, version) |-> ItemPassed(f, item)]

passed_inspection(f) ==
    \A item \in DOMAIN f.inspection : f.inspection[item]

update_integrity_by_inspection(f, recheck) ==
    IF ~(f.integrity = "Pending" \/ recheck) THEN f
    ELSE IF passed_inspection(f) THEN setattr_integrity(f, "Ideal")
    ELSE IF \E item \in MAJOR_INSPECTION_ITEMS(app, version) : ~f.inspection[item]
         THEN setattr_integrity(f, "Mangled")
         ELSE setattr_integrity(f, "Dirty")

\* hash((height, offset)): distinct windows of a file hash apart, and no hash
\* is the initial integrity_hash, -1.
HashWindow(h, o) == h * (MaxRows + 1) + o

\* OCAT.define_properties reads the property columns from the file at its path
\* (read_csv of self.property_fields) unless saved properties are in use;
\* FrameView.define_properties only looks at the loaded table.
define_properties_raises(f, disk) ==
    /\ app = "OCAT"
    /\ f.uses_saved_properties # "True"
    /\ (~disk \/ ~f.property_fields)

\* The same evaluation without the test of the window's hash.
evaluate_integrity_always(f, disk) ==
    LET f1 == [f EXCEPT !.integrity_hash = HashWindow(f.height, f.offset),
                        !.inspection = inspect_capture(f)]
        f2 == IF define_properties_raises(f1, disk) THEN f1
              ELSE update_integrity_by_inspection(f1, TRUE)
    IN [f2 EXCEPT !.graded = f2.integrity]

\* PresentMon.evaluate_integrity. `graded` is the integrity the object holds
\* when the latest inspection run returns.
evaluate_integrity(f, disk) ==
    IF HashWindow(f.height, f.offset) = f.integrity_hash THEN f
    ELSE LET f1 == [f EXCEPT !.integrity_hash = HashWindow(f.height, f.offset),
                             !.inspection = inspect_capture(f)]
             f2 == IF define_properties_raises(f1, disk) THEN f1
                   ELSE update_integrity_by_inspection(f1, TRUE)
         IN [f2 EXCEPT !.graded = f2.integrity]

-----------------------------------------------------------------------------
(* gui/metadata.py: the Time record of the file's hash *)

NoRecord == [present |-> FALSE, ranged |-> FALSE, Offset |-> 0, Start |-> 0, End |-> 0]

\* update_record(hash, {"Offset": first_timestamp}, "Time")
update_record_offset(f, first) ==
    [f EXCEPT !.time_record.present = TRUE, !.time_record.Offset = first]

\* update_record(hash, {"Offset": .., "Start": .., "End": ..}, "Time")
update_record_time(f, first, start, end) ==
    [f EXCEPT !.time_record =
        [present |-> TRUE, ranged |-> TRUE, Offset |-> first, Start |-> start, End |-> end]]

remove_record_time(f) == [f EXCEPT !.time_record = NoRecord]

-----------------------------------------------------------------------------
(* formats/capturefile.py: the time axis *)

CountBelow(t, cutoff) == Cardinality({i \in 1..Len(t) : t[i] < cutoff})
CountAbove(t, cutoff) == Cardinality({i \in 1..Len(t) : t[i] > cutoff})

SeqMax(t, S) == CHOOSE m \in {t[i] : i \in S} : \A i \in S : t[i] <= m

resize_zero_column(f) == [f EXCEPT !.zero_col = frames(f)]

\* data[time_alias] -= column(time_alias, index=self.offset); then the record
\* is updated when the first timestamp is not 0.
start_time_at_zero(f) ==
    LET initial == f.times[f.offset + 1]
        shifted == [i \in 1..Len(f.times) |-> f.times[i] - initial]
        f1 == [f EXCEPT !.times = shifted]
    IN IF shifted[1] # 0 THEN update_record_offset(f1, shifted[1]) ELSE f1

reset_time_axis(f, remove_time_record, disk) ==
    LET f1 == [f EXCEPT !.offset = 0, !.height = f.rows]
        f2 == start_time_at_zero(f1)
        f3 == resize_zero_column(f2)
        f4 == evaluate_integrity(f3, disk)
    IN IF remove_time_record THEN remove_record_time(f4) ELSE f4

\* The same update without the removal of the record of an untouched file.
update_time_metadata_always(f) ==
    update_record_time(f, f.times[1], f.offset, f.height)

update_time_metadata(f) ==
    IF f.times[1] = 0 /\ f.offset = 0 /\ f.height = f.rows
    THEN remove_record_time(f)
    ELSE update_record_time(f, f.times[1], f.offset, f.height)

offset_time_axis(f, time_offset) ==
    IF time_offset = 0 THEN f
    ELSE [f EXCEPT !.times = [i \in 1..Len(f.times) |-> f.times[i] + time_offset]]

\* The same trim without the rejection of windows that are too small.
trim_without_rejection(f, relation, cutoff, disk) ==
    LET f1 == IF relation \in {"Before", "Drop"}
              THEN [f EXCEPT !.offset =
                       IF relation = "Before" THEN CountBelow(f.times, cutoff)
                       ELSE IF f.offset >= CountBelow(f.times, cutoff) THEN f.offset
                       ELSE CountBelow(f.times, cutoff)]
              ELSE IF CountAbove(f.times, cutoff) < f.rows
                   THEN [f EXCEPT !.height = f.rows - CountAbove(f.times, cutoff)]
                   ELSE f
        f3 == update_time_metadata(f1)
        f4 == resize_zero_column(f3)
    IN evaluate_integrity(f4, disk)

\* The same trim with "Drop" placing offset at the cutoff as "Before" does.
trim_dropping_as_before(f, relation, cutoff, disk) ==
    LET f1 == IF relation \in {"Before", "Drop"}
              THEN [f EXCEPT !.offset = CountBelow(f.times, cutoff)]
              ELSE IF CountAbove(f.times, cutoff) < f.rows
                   THEN [f EXCEPT !.height = f.rows - CountAbove(f.times, cutoff)]
                   ELSE f
        f2 == IF f1.offset >= f1.height \/ frames(f1) < 2
              THEN reset_time_axis(f1, TRUE, disk)
              ELSE f1
        f3 == update_time_metadata(f2)
        f4 == resize_zero_column(f3)
    IN evaluate_integrity(f4, disk)

trim_time_axis(f, relation, cutoff, disk) ==
    LET f1 == IF relation \in {"Before", "Drop"}
              THEN [f EXCEPT !.offset =
                       IF relation = "Before" THEN CountBelow(f.times, cutoff)
                       ELSE IF f.offset >= CountBelow(f.times, cutoff) THEN f.offset
                       ELSE CountBelow(f.times, cutoff)]
              ELSE IF CountAbove(f.times, cutoff) < f.rows
                   THEN [f EXCEPT !.height = f.rows - CountAbove(f.times, cutoff)]
                   ELSE f
        f2 == IF f1.offset >= f1.height \/ frames(f1) < 2
              THEN reset_time_axis(f1, TRUE, disk)
              ELSE f1
        f3 == update_time_metadata(f2)
        f4 == resize_zero_column(f3)
    IN evaluate_integrity(f4, disk)

\* alias_present("Frametimes") holds for FrameView and OCAT once the headers
\* are read; the frame times are tainted when one of the visible frames is 0.
tainted_frametimes(f) ==
    ~f.headersRead \/ \E i \in Window(f) : faults[i] = "zeroft"

\* CaptureFile.restore_saved_properties. The result's `raised` tells whether
\* define_properties() raised before the guarded block was entered.
restore_saved_properties(f, disk) ==
    IF f.uses_saved_properties # "None" THEN f
    ELSE IF define_properties_raises(f, disk) THEN [f EXCEPT !.raised = TRUE]
    ELSE LET r == f.time_record
             f1 == IF ~r.present THEN f
                   ELSE IF ~r.ranged
                        \* stored_time["Start"] raises KeyError: the except branch
                        THEN [reset_time_axis(f, TRUE, disk) EXCEPT !.uses_saved_properties = "False"]
                   ELSE IF r.Start < r.End /\ r.End - r.Start > 1
                           /\ SeqMax(f.times, Window(f)) + r.Offset > 0
                        THEN [offset_time_axis(f, r.Offset) EXCEPT
                                 !.offset = r.Start, !.height = r.End]
                        ELSE reset_time_axis(f, TRUE, disk)
         IN IF f1.uses_saved_properties = "False" THEN f1
            ELSE [f1 EXCEPT !.uses_saved_properties = IF hasProps THEN "True" ELSE "False"]

\* With no headers read, start_time_at_zero subtracts column(), the unset
\* zero_col, from the time column and raises out of reset_time_axis.
valid_file_setup(f, disk) ==
    LET f1 == IF f.headersRead THEN reset_time_axis(f, FALSE, disk)
              ELSE [f EXCEPT !.offset = 0, !.height = f.rows, !.raised = TRUE]
        f2 == IF f1.raised THEN f1 ELSE restore_saved_properties(f1, disk)
    IN IF f2.raised THEN f2
       ELSE IF tainted_frametimes(f2) /\ f2.integrity = "Ideal"
            THEN setattr_integrity(f2, "Dirty")
            ELSE f2

-----------------------------------------------------------------------------
(* The import of one file and the operations on it *)

\* The (format, version) pairs infer_format hands a file to; a file that
\* matches no fingerprint is read verbatim.
Captures ==
    {<<"FrameView", "1.0">>, <<"FrameView", "1.4">>, <<"OCAT", "1.6.1">>,
     <<"Verbatim", "">>}

ReadOutcomes == {"ok", "mixed", "mixed_fail", "keyerror", "error"}

NewFile ==
    [integrity |-> Unset, integrity_hash |-> 0 - 1, headersRead |-> FALSE,
     property_fields |-> FALSE, rows |-> 0, height |-> 0, offset |-> 0,
     times |-> [i \in 1..Rows |-> i], zero_col |-> 0 - 1,
     inspection |-> [item \in {} |-> FALSE], uses_saved_properties |-> "None",
     time_record |-> NoRecord, emitted |-> <<>>, assigned |-> <<>>,
     graded |-> Unset, raised |-> FALSE]

\* The Time records the program itself writes for a file of n rows: none, a
\* trimmed window, or the full window of a curve dragged along the plot by 1
\* and dropped.
StoredRecords(n) ==
    {NoRecord} \cup
    {[present |-> TRUE, ranged |-> TRUE, Offset |-> 0, Start |-> w[1], End |-> w[2]] :
        w \in {x \in (0..n) \X (0..n) : x[2] - x[1] >= 2 /\ ~(x[1] = 0 /\ x[2] = n)}} \cup
    {[present |-> TRUE, ranged |-> TRUE, Offset |-> 1, Start |-> 0, End |-> n]}

NoOperation == [op |-> "none", relation |-> "", cutoff |-> 0, repeated |-> FALSE]

Init ==
    /\ pc = "new"
    /\ \E c \in Captures : app = c[1] /\ version = c[2]
    /\ \E n \in 1..MaxRows : faults \in [1..n -> Faults]
    /\ onDisk = TRUE
    /\ hasProps \in BOOLEAN
    /\ \E r \in StoredRecords(Len(faults)) : file = [NewFile EXCEPT !.time_record = r]
    /\ last = NoOperation
    /\ settings = DefaultSettings /\ plot = NewPlot
    /\ det = NoDetection /\ PureIdle

\* `repeated` tells whether the step before performed the same operation.
NoArgs(name) ==
    [op |-> name, relation |-> "", cutoff |-> 0, repeated |-> last.op = name]

\* An import, and each operation on an imported file, starts with nothing
\* assigned, emitted or raised yet.
Begin(f) == [f EXCEPT !.assigned = <<>>, !.emitted = <<>>, !.raised = FALSE]

\* CaptureFile.__init__ and the first lines of PresentMon.__init__. Hashing the
\* file opens it: when that fails the parser's except clause swallows the
\* error and the object is returned without an integrity attribute.
\* Verbatim.__init__ has no except clause: it reads the file and assigns
\* Invalid, or the error of the hashing leaves it and infer_format.
Construct ==
    /\ pc = "new"
    /\ IF app = "Verbatim"
       THEN IF onDisk
            THEN /\ file' = [setattr_integrity(
                                setattr_integrity(Begin(file), "Initialized"), "Invalid")
                                EXCEPT !.headersRead = TRUE, !.rows = Rows, !.height = Rows]
                 /\ pc' = "loaded"
            ELSE /\ file' = Begin(file)
                 /\ pc' = "raised"
       ELSE IF onDisk
       THEN /\ file' = [setattr_integrity(setattr_integrity(Begin(file), "Initialized"), "Pending")
                           EXCEPT !.integrity_hash = 0 - 1]
            /\ pc' = "constructed"
       ELSE /\ file' = Begin(file)
            /\ pc' = "loaded"
    /\ last' = NoArgs("construct")
    /\ UNCHANGED <<app, version, faults, onDisk, hasProps, statVars, det, pureVars>>

\* PresentMon.parse_file with read_log and process_mixed_dtypes.
parse_file(f, outcome) ==
    LET f1 == CASE outcome = "ok" -> f
                [] outcome = "mixed" -> setattr_integrity(f, "Mangled")
                [] outcome = "mixed_fail" ->
                       setattr_integrity(setattr_integrity(f, "Mangled"), "Invalid")
                [] OTHER -> setattr_integrity(f, "Invalid")
    IN IF f1.integrity = "Invalid"
       THEN [f1 EXCEPT !.headersRead = FALSE, !.height = 0,
                       !.rows = IF outcome = "error" THEN 0 ELSE Rows,
                       !.property_fields = (app = "OCAT" /\ outcome # "error")]
       ELSE [f1 EXCEPT !.headersRead = TRUE, !.height = Rows, !.rows = Rows,
                       !.property_fields = (app = "OCAT")]

ParseFile ==
    /\ pc = "constructed"
    /\ \E outcome \in ReadOutcomes :
          /\ onDisk \/ outcome = "error"
          /\ file' = parse_file(file, outcome)
    /\ pc' = "parsed"
    /\ last' = NoArgs("parse_file")
    /\ UNCHANGED <<app, version, faults, onDisk, hasProps, statVars, det, pureVars>>

\* The last line of PresentMon.__init__; FileLoader.infer_format then returns.
EvaluateIntegrity ==
    /\ pc = "parsed"
    /\ file' = evaluate_integrity(file, onDisk)
    /\ pc' = "loaded"
    /\ last' = NoArgs("evaluate_integrity")
    /\ UNCHANGED <<app, version, faults, onDisk, hasProps, statVars, det, pureVars>>

TrimTimeAxis ==
    /\ pc = "setup"
    /\ \E relation \in {"Before", "After", "Drop"}, cutoff \in 0..MaxRows :
          /\ file' = trim_time_axis(Begin(file), relation, cutoff, onDisk)
          /\ last' = [op |-> "trim_time_axis", relation |-> relation, cutoff |-> cutoff,
                       repeated |-> last.op = "trim_time_axis"]
    /\ UNCHANGED <<pc, app, version, faults, onDisk, hasProps, statVars, det, pureVars>>

ResetTimeAxis ==
    /\ pc = "setup"
    /\ file' = reset_time_axis(Begin(file), TRUE, onDisk)
    /\ last' = NoArgs("reset_time_axis")
    /\ UNCHANGED <<pc, app, version, faults, onDisk, hasProps, statVars, det, pureVars>>

\* The file is deleted or moved away by its owner.
FileRemoved ==
    /\ onDisk
    /\ onDisk' = FALSE
    /\ last' = NoArgs("file_removed")
    /\ UNCHANGED <<pc, app, version, faults, hasProps, file, statVars, det, pureVars>>


-----------------------------------------------------------------------------
(* gui/plotobject.py: the statistics table and its per-section cache *)

\* hash((self.file.offset, self.file.height, *other_criteria)): distinct
\* tuples hash apart and none hashes to the initial 0.
range_hash(f, criteria) ==
    1 + f.offset + (MaxRows + 2) * (f.height + (MaxRows + 2) * criteria)

\* The same look-up without the store of the new hash after a miss.
use_cached_stats_forgetful(p, f, section, criteria) ==
    [p EXCEPT !._cache_hits[section] =
                  <<@[1] + (IF p._hashes[section] = range_hash(f, criteria) THEN 1 ELSE 0),
                    @[2] + 1>>]

\* PlotObject.use_cached_stats: the counters and the stored hash after the
\* look-up; Hit tells what it returns.
use_cached_stats(p, f, section, criteria) ==
    [p EXCEPT !._cache_hits[section] =
                  <<@[1] + (IF p._hashes[section] = range_hash(f, criteria) THEN 1 ELSE 0),
                    @[2] + 1>>,
              !._hashes[section] = range_hash(f, criteria)]

Hit(p, f, section, criteria) == p._hashes[section] = range_hash(f, criteria)

\* A section's setter: consult the cache and, on a miss, set the cells to
\* `cells`, the values computed from the visible rows.
set_metrics(p, f, section, criteria, cells) ==
    IF Hit(p, f, section, criteria)
    THEN use_cached_stats(p, f, section, criteria)
    ELSE [use_cached_stats(p, f, section, criteria) EXCEPT !.stats[section] = cells]

\* The rows a statistic is computed from.
Visible(f) == <<f.offset, f.height>>

set_capture_metrics(p, f) == [p EXCEPT !.stats["Capture"] = <<f.integrity>>]

set_time_metrics(p, f) ==
    set_metrics(p, f, "Time", settings.TimeScale, <<Visible(f), settings.TimeScale>>)

set_display_metrics(p, f) ==
    set_metrics(p, f, "Display", settings.DecimalPlaces,
                <<Visible(f), settings.DecimalPlaces>>)

set_performance_metrics(p, f) ==
    IF tainted_frametimes(f) THEN p
    ELSE set_metrics(p, f, "Performance", 0, <<Visible(f)>>)

set_percentile_metrics(p, f) ==
    IF tainted_frametimes(f) THEN p
    ELSE set_metrics(p, f, "Percentiles", settings.Exclusive,
                     <<Visible(f), settings.Exclusive>>)

\* The relative percentiles are computed from the cells of the table.
set_relative_percentile_metrics(p, f) ==
    IF tainted_frametimes(f) THEN p
    ELSE set_metrics(p, f, "Relative Percentiles", settings.DecimalPlaces,
                     <<p.stats["Performance"], p.stats["Percentiles"],
                       settings.DecimalPlaces>>)

\* CaptureFile.calculate_stutter: the result of stutter_heuristic over the
\* visible frame times with the thresholds of the settings; a zero frame time
\* gives the invalid result, whatever the thresholds.
calculate_stutter(f) ==
    <<Visible(f), IF tainted_frametimes(f) THEN 0 ELSE settings.StutterDeltaMs>>

\* file.stutter() computes stutter_data on its first call only.
set_stutter_metrics(p, f) ==
    IF Hit(p, f, "Stutter", settings.DecimalPlaces)
    THEN use_cached_stats(p, f, "Stutter", settings.DecimalPlaces)
    ELSE LET data == IF p.stutter_data = NA THEN calculate_stutter(f)
                     ELSE p.stutter_data
         IN [use_cached_stats(p, f, "Stutter", settings.DecimalPlaces) EXCEPT
                !.stutter_data = data,
                !.stats["Stutter"] = <<data, settings.DecimalPlaces>>]

set_hardware_metrics(p, f) == set_metrics(p, f, "Hardware", 0, <<Visible(f)>>)

\* PlotObject.update_stutter_metrics: file.stutter(overwrite=True), then
\* update_stutter_stats, which is set_stutter_metrics.
update_stutter_metrics(p, f) ==
    set_stutter_metrics([p EXCEPT !.stutter_data = calculate_stutter(f)], f)

calculate_stats(p, f) ==
    set_hardware_metrics(
      set_stutter_metrics(
        set_relative_percentile_metrics(
          set_percentile_metrics(
            set_performance_metrics(
              set_display_metrics(
                set_time_metrics(
                  set_capture_metrics(p, f), f), f), f), f), f), f), f)

\* PlotObject.create_plot_object: the object infer_format returned is set up
\* when its integrity is valid, full_object_setup ending with calculate_stats
\* and the entry in _valid_instances; every other file is made Invalid. When
\* infer_format raised, self.file does not exist and the except clause
\* raises in turn. The finally clause enters the object in _instances.
CreatePlotObject ==
    /\ pc \in {"loaded", "raised"}
    /\ IF pc = "raised"
       THEN /\ file' = file
            /\ plot' = [plot EXCEPT !._instances = TRUE]
            /\ pc' = "failed"
       ELSE IF file.integrity # Unset /\ valid(file.integrity)
       THEN LET f1 == valid_file_setup(file, onDisk)
            IN IF f1.raised
               THEN /\ file' = [setattr_integrity(f1, "Invalid") EXCEPT !.raised = FALSE]
                    /\ plot' = [plot EXCEPT !.file = TRUE, !._instances = TRUE]
                    /\ pc' = "failed"
               ELSE /\ file' = f1
                    /\ plot' = [calculate_stats(plot, f1) EXCEPT
                                   !.file = TRUE, !._instances = TRUE,
                                   !._valid_instances = TRUE]
                    /\ pc' = "setup"
       ELSE /\ file' = setattr_integrity(file, "Invalid")
            /\ plot' = [plot EXCEPT !.file = TRUE, !._instances = TRUE]
            /\ pc' = "failed"
    /\ last' = NoArgs("create_plot_object")
    /\ UNCHANGED <<app, version, faults, onDisk, hasProps, settings, det, pureVars>>

Next ==
    \/ Construct
    \/ ParseFile
    \/ EvaluateIntegrity
    \/ CreatePlotObject
    \/ TrimTimeAxis
    \/ ResetTimeAxis
    \/ FileRemoved

Spec == Init /\ [][Next]_vars

\* The file a successful import hands to full_object_setup.
ImportedFile ==
    LET f0 == [setattr_integrity(setattr_integrity(NewFile, "Initialized"), "Pending")
                  EXCEPT !.integrity_hash = 0 - 1]
    IN valid_file_setup(evaluate_integrity(parse_file(f0, "ok"), TRUE), TRUE)

InitStats ==
    /\ pc = "setup"
    /\ app = "FrameView" /\ version = "1.4"
    /\ faults \in {[i \in 1..MaxRows |-> "none"],
                  [i \in 1..MaxRows |-> IF i = 1 THEN "zeroft" ELSE "none"]}
    /\ onDisk = TRUE
    /\ hasProps = FALSE
    /\ file = ImportedFile
    /\ last = NoOperation
    /\ settings = DefaultSettings
    /\ plot = NewPlot
    /\ det = NoDetection /\ PureIdle

\* full_object_setup's call of calculate_stats, and MainWindow.refresh_stats.
CalculateStats ==
    /\ pc = "setup"
    /\ plot._cache_hits["Display"][2] < MaxCalls
    /\ plot' = calculate_stats(plot, file)
    /\ last' = NoArgs("calculate_stats")
    /\ UNCHANGED <<pc, app, version, faults, onDisk, hasProps, file, settings, det, pureVars>>

\* ViewBox.trim_plots on the plotted file, cutting the rows before the cursor.
TrimPlots ==
    /\ last.op # "none"
    /\ \E cutoff \in 0..MaxRows :
          file' = trim_time_axis(Begin(file), "Before", cutoff, onDisk)
    /\ last' = NoArgs("trim_time_axis")
    /\ UNCHANGED <<pc, app, version, faults, onDisk, hasProps, statVars, det, pureVars>>

\* MainWindow.update_stutter_parameters, the slot that follows a change of a
\* stutter setting: recalculate_stutter_stats forces the stutter update of
\* the plotted file and refresh_stats recalculates its statistics.
UpdateStutterParameters ==
    /\ last.op # "none"
    /\ plot._cache_hits["Display"][2] < MaxCalls
    /\ plot' = calculate_stats(update_stutter_metrics(plot, file), file)
    /\ last' = NoArgs("update_stutter_parameters")
    /\ UNCHANGED <<pc, app, version, faults, onDisk, hasProps, file, settings, det, pureVars>>

\* The user saves another value for one of the settings.
ChangeSetting ==
    /\ last.op # "none"
    /\ \E key \in DOMAIN SettingValues : \E value \in SettingValues[key] :
          /\ value # settings[key]
          /\ settings' = [settings EXCEPT ![key] = value]
    /\ last' = NoArgs("change_setting")
    /\ UNCHANGED <<pc, app, version, faults, onDisk, hasProps, file, plot, det, pureVars>>

\* The import, after which the file's statistics are refreshed and its time
\* axis is reset from the list of loaded files (ListWidget.reset_file_times
\* calls file.reset_time_axis() on the file under the cursor, which need not
\* be the selected one that modify_selected_plot recalculates).
NextImport ==
    \/ Construct
    \/ ParseFile
    \/ EvaluateIntegrity
    \/ CreatePlotObject
    \/ CalculateStats
    \/ ResetTimeAxis
    \/ FileRemoved

SpecImport == Init /\ [][NextImport]_vars

SpecStats ==
    InitStats /\
        [][CalculateStats \/ TrimPlots \/ ChangeSetting \/ UpdateStutterParameters]_vars

-----------------------------------------------------------------------------
(* core/fileloader.py: format detection *)

\* The header strings a file or a fingerprint can hold.
HeaderNames == {"Time", "Dropped", "Latency"}

\* capture_fingerprints, flattened in its iteration order: one set of expected
\* headers per (format, version), none of them empty.
Fingerprints == [1..MaxPrints -> (SUBSET HeaderNames) \ {{}}]

\* len(header_set.intersection(match_set)); the score is this over len(match_set).
shared(d, k) == Cardinality(d.header_set \cap d.table[k])

\* The same comparison with > in place of >=: the first maximum is kept.
compare_strictly(d) ==
    LET n == shared(d, d.i)
        len == Cardinality(d.table[d.i])
    IN IF n > 0 /\ n * d.percent_matches[2] > d.percent_matches[1] * len
       THEN [d EXCEPT !.application = d.i, !.percent_matches = <<n, len>>, !.i = d.i + 1]
       ELSE [d EXCEPT !.i = d.i + 1]

\* One pass of the loop body of infer_format. percent_matches is kept as the
\* pair (shared, len) and two scores are compared by cross-multiplication.
compare(d) ==
    LET n == shared(d, d.i)
        len == Cardinality(d.table[d.i])
    IN IF n > 0 /\ n * d.percent_matches[2] >= d.percent_matches[1] * len
       THEN [d EXCEPT !.application = d.i, !.percent_matches = <<n, len>>, !.i = d.i + 1]
       ELSE [d EXCEPT !.i = d.i + 1]

InitDetect ==
    /\ pc = "idle" /\ app = "" /\ version = "" /\ faults = <<>>
    /\ onDisk = TRUE /\ hasProps = FALSE /\ file = NewFile /\ last = NoOperation
    /\ settings = DefaultSettings /\ plot = NewPlot /\ PureIdle
    /\ \E h \in SUBSET HeaderNames, t \in Fingerprints :
          det = [NoDetection EXCEPT !.phase = "start", !.headers = h, !.table = t]

\* FileLoader.find_headers: a failed read is logged and [] is returned.
FindHeaders ==
    /\ det.phase = "start"
    /\ det' = [det EXCEPT !.phase = "matching",
                          !.header_set = IF det.readable THEN det.headers ELSE {}]
    /\ UNCHANGED <<fileVars, statVars, pureVars>>

Compare ==
    /\ det.phase = "matching" /\ det.i <= Len(det.table)
    /\ det' = compare(det)
    /\ UNCHANGED <<fileVars, statVars, pureVars>>

\* The rest of infer_format once the loop has ended. Verbatim.__init__ hashes
\* the file outside any try block, and so does file_path.stat(): both raise
\* when the file cannot be opened. The parsers catch what their own
\* constructors raise.
ReturnFile ==
    /\ det.phase = "matching" /\ det.i > Len(det.table)
    /\ det' = [det EXCEPT !.phase = "returned",
                          !.result = IF ~det.readable THEN "raised"
                                     ELSE IF det.application = 0 THEN "Verbatim"
                                     ELSE "parser"]
    /\ UNCHANGED <<fileVars, statVars, pureVars>>

\* The file is deleted, moved or locked by its owner while it is loading.
BecomesUnreadable ==
    /\ det.phase \in {"start", "matching"} /\ det.readable
    /\ det' = [det EXCEPT !.readable = FALSE]
    /\ UNCHANGED <<fileVars, statVars, pureVars>>

NextDetect == FindHeaders \/ Compare \/ ReturnFile \/ BecomesUnreadable

SpecDetect == InitDetect /\ [][NextDetect]_vars

-----------------------------------------------------------------------------
(* formats/capturefile.py: polling-rate inference, as the GPU-Z and
   RivaTuner-family constructors call it *)

\* No import, no statistics and no detection are under way.
NoImport ==
    /\ pc = "idle" /\ app = "" /\ version = "" /\ faults = <<>>
    /\ onDisk = TRUE /\ hasProps = FALSE /\ file = NewFile /\ last = NoOperation
    /\ settings = DefaultSettings /\ plot = NewPlot /\ det = NoDetection

Sum(t) == LET RECURSIVE S(_)
              S(k) == IF k = 0 THEN 0 ELSE t[k] + S(k - 1)
          IN S(Len(t))

\* numpy.median of a non-empty sequence, as the fraction <<numerator, 1 or 2>>.
median(t) ==
    LET s == SortSeq(t, LAMBDA a, b : a < b)
        n == Len(s)
    IN IF n % 2 = 1 THEN <<s[(n + 1) \div 2], 1>>
       ELSE <<s[n \div 2] + s[n \div 2 + 1], 2>>

\* to_datetime, then the differences of consecutive timestamps, keeping those
\* above 0. (Raises when a timestamp does not match the format: see below.)
positive_time_deltas(time_data) ==
    LET deltas == [i \in 1..(Len(time_data) - 1) |-> time_data[i + 1] - time_data[i]]
    IN SelectSeq(deltas, LAMBDA d : d > 0)

\* The deltas, in seconds, without those at or above median + 3 * std, then
\* their median. std is numpy's population deviation: with n deltas of sum s
\* and sum of squares q, n^2 * std^2 = n * q - s^2, so the comparison
\* median + 3 * std > p is made on squares, in integers.
filter_time_deltas(positive_deltas) ==
    LET n == Len(positive_deltas)
        med == median(positive_deltas)
        s == Sum(positive_deltas)
        q == Sum([i \in 1..n |-> positive_deltas[i] * positive_deltas[i]])
        nnvar == n * q - s * s
        Keeps(p) ==
            LET above == p * med[2] - med[1]
            IN \/ above <= 0
               \/ above * above * n * n < 9 * nnvar * med[2] * med[2]
    IN IF nnvar > 0
       THEN median(SelectSeq(positive_deltas, Keeps))
       ELSE med

\* The same inference degrading whatever grade the file holds.
infer_and_degrade(p) ==
    IF ~p.parses THEN [p EXCEPT !.rate = <<1, 1>>]
    ELSE LET positive_deltas == positive_time_deltas(p.time)
         IN IF Len(positive_deltas) = 0
            THEN [p EXCEPT !.rate = <<1, 1>>, !.integrity = "Dirty"]
            ELSE [p EXCEPT !.rate = filter_time_deltas(positive_deltas)]

\* The same function without the degrade of an Ideal file.
infer_without_degrade(p) ==
    IF ~p.parses THEN [p EXCEPT !.rate = <<1, 1>>]
    ELSE LET positive_deltas == positive_time_deltas(p.time)
         IN IF Len(positive_deltas) = 0
            THEN [p EXCEPT !.rate = <<1, 1>>]
            ELSE [p EXCEPT !.rate = filter_time_deltas(positive_deltas)]

\* CaptureFile.infer_polling_rate. An exception (timestamps that to_datetime
\* cannot parse) is logged and 1.0 is returned with integrity untouched.
\* "max(positive_deltas) == 0" never holds of deltas that are all above 0.
infer_polling_rate(p) ==
    IF ~p.parses THEN [p EXCEPT !.rate = <<1, 1>>]
    ELSE LET positive_deltas == positive_time_deltas(p.time)
         IN IF Len(positive_deltas) = 0
            THEN [p EXCEPT !.rate = <<1, 1>>,
                           !.integrity = IF @ = "Ideal" THEN "Dirty" ELSE @]
            ELSE [p EXCEPT !.rate = filter_time_deltas(positive_deltas)]

Parsers == {"GPU-Z", "RivaTuner", "PCAT", "LDAT"}

\* The parsers of logs without performance data: frametimes() is the
\* placeholder column and no Frametimes alias exists.
Monitors == {"GPU-Z", "PCAT", "LDAT"}

Timestamps == UNION {[1..n -> 0..MaxTick] : n \in 0..MaxStamps}

\* CaptureFile.__init__ has run: integrity is Initialized. perf tells whether
\* the log has a Frametime or Framerate header, parses whether every
\* timestamp matches the format of the parser.
InitPoll ==
    /\ NoImport /\ heur = NoHeuristic /\ col = NoColumn /\ pool = NoPool /\ alias = NoAlias
    /\ insp = NoInspection
    /\ \E parser \in Parsers, perf \in BOOLEAN, parses \in BOOLEAN, time \in Timestamps :
          /\ parser \in Monitors => ~perf
          /\ poll = [NoPolling EXCEPT !.phase = "constructed", !.parser = parser,
                                      !.perf = perf, !.parses = parses, !.time = time,
                                      !.integrity = "Initialized",
                                      !.called_with = "Initialized"]

\* self.integrity = Integrity.Pending, first statement after super().__init__.
SetPending ==
    /\ poll.phase = "constructed"
    /\ poll' = [poll EXCEPT !.phase = "pending", !.integrity = "Pending"]
    /\ UNCHANGED <<fileVars, statVars, det, heur, col, pool, alias, insp>>

\* RivaTuner.parse_file grades the file by its headers before it reads the log.
ExtractHeaders ==
    /\ poll.phase = "pending" /\ poll.parser = "RivaTuner"
    /\ poll' = [poll EXCEPT !.phase = "headers",
                            !.integrity = IF poll.perf THEN "Ideal" ELSE "Partial"]
    /\ UNCHANGED <<fileVars, statVars, det, heur, col, pool, alias, insp>>

\* polling_rate = super().infer_polling_rate(file_data[...]) in parse_file.
InferPollingRate ==
    /\ \/ poll.phase = "pending" /\ poll.parser = "GPU-Z"
       \/ poll.phase = "headers"
    /\ poll' = [infer_polling_rate(poll) EXCEPT !.phase = "inferred",
                                                !.called_with = poll.integrity]
    /\ UNCHANGED <<fileVars, statVars, det, heur, col, pool, alias, insp>>

\* PCAT.parse_file and LDAT.parse_file read the log without inferring a
\* polling rate; LDAT grades the file Partial once the log has been read.
ParseWithoutPolling ==
    /\ poll.phase = "pending" /\ poll.parser \in {"PCAT", "LDAT"}
    /\ poll' = [poll EXCEPT !.phase = "parsed",
                            !.integrity = IF poll.parser = "LDAT" /\ poll.parses
                                          THEN "Partial" ELSE @]
    /\ UNCHANGED <<fileVars, statVars, det, heur, col, pool, alias, insp>>

\* The rest of the constructor: GPU-Z and PCAT grade every file Partial, LDAT
\* and the RivaTuner family assign nothing more.
FinishInit ==
    /\ poll.phase \in {"inferred", "parsed"}
    /\ poll' = [poll EXCEPT !.phase = "done",
                            !.integrity = IF poll.parser \in {"GPU-Z", "PCAT"}
                                          THEN "Partial" ELSE @]
    /\ UNCHANGED <<fileVars, statVars, det, heur, col, pool, alias, insp>>

\* create_plot_object on the parser's file: a valid file goes through
\* valid_file_setup, whose last lines degrade an Ideal file with tainted frame
\* times; any other file is made Invalid. A log without performance data is
\* always tainted.
ValidFileSetup ==
    /\ poll.phase = "done"
    /\ \E tainted \in BOOLEAN :
          /\ ~poll.perf => tainted
          /\ poll' = IF valid(poll.integrity)
                     THEN [poll EXCEPT !.phase = "setup",
                                       !.integrity = IF tainted /\ @ = "Ideal"
                                                     THEN "Dirty" ELSE @]
                     ELSE [poll EXCEPT !.phase = "failed", !.integrity = "Invalid"]
    /\ UNCHANGED <<fileVars, statVars, det, heur, col, pool, alias, insp>>

\* trim_time_axis and reset_time_axis on a set-up log: both end with
\* evaluate_integrity, which does nothing outside the PresentMon family.
TrimLog ==
    /\ poll.phase = "setup" /\ poll.trims < MaxCalls
    /\ poll' = [poll EXCEPT !.trims = @ + 1]
    /\ UNCHANGED <<fileVars, statVars, det, heur, col, pool, alias, insp>>

NextPoll ==
    \/ SetPending
    \/ ExtractHeaders
    \/ InferPollingRate
    \/ ParseWithoutPolling
    \/ FinishInit
    \/ ValidFileSetup
    \/ TrimLog

SpecPoll == InitPoll /\ [][NextPoll]_vars

-----------------------------------------------------------------------------
(* formats/capturefile.py: the stutter and oscillation heuristics *)

\* StutterHeuristic/StutterWindowSize values of the runs (19 by default) and
\* the pairs (StutterDeltaMs, StutterDeltaPct) they are made with.
WindowSizes == {3}
Thresholds == {<<1, 50>>, <<4, 20>>}

\* frametimes.rolling(window_size, min_periods=window_size, center=True) at
\* frame i, for an odd window size: the frames around i, or <<>> (NaN) when
\* the window reaches outside the series.
rolling(h, i) ==
    LET lo == i - h.window_size \div 2
        hi == i + h.window_size \div 2
    IN IF lo >= 1 /\ hi <= Len(h.frametimes) THEN SubSeq(h.frametimes, lo, hi)
       ELSE <<>>

\* Four times Rolling.quantile(k / 4) of a window, by linear interpolation.
quantile(window, k) ==
    LET s == SortSeq(window, LAMBDA a, b : a < b)
        lo == (k * (Len(s) - 1)) \div 4
        r == (k * (Len(s) - 1)) % 4
    IN s[lo + 1] * (4 - r) + (IF r > 0 THEN s[lo + 2] * r ELSE 0)

\* osc_percent_delta & osc_ms_delta of the window at frame i. The thresholds
\* are OscDeltaPct / 100 and OscDeltaMs / 100; both comparisons are made
\* exactly, over the rationals.
osc_frame(h, i) ==
    LET q1 == quantile(rolling(h, i), 1)
        q3 == quantile(rolling(h, i), 3)
    IN /\ rolling(h, i) # <<>>
       /\ (q3 - q1) * 100 >= OscDeltaPct * q1
       /\ (q3 - q1) * 100 >= 4 * OscDeltaMs

\* CaptureFile.oscillation_heuristic: TRUE when it returns the "OSC" tuple.
oscillation_heuristic(h) ==
    LET num_frames == Len(h.frametimes)
        num_osc_frames == Cardinality({i \in 1..num_frames : osc_frame(h, i)})
    IN num_frames # 0 /\ ~(num_osc_frames * 100 < OscWarnPct * num_frames)

\* |frametimes - rolling_median| at frame i, times the denominator of the median.
deviation(h, i) ==
    LET m == median(rolling(h, i))
        d == h.frametimes[i] * m[2] - m[1]
    IN IF d < 0 THEN 0 - d ELSE d

\* percent_deviations > delta_pct, with delta_pct = StutterDeltaPct / 100.
percent_delta(h, i) ==
    rolling(h, i) # <<>> /\
        deviation(h, i) * 100 > h.delta_pct * median(rolling(h, i))[1]

\* frame_time_deviations > delta_ms
ms_delta(h, i) ==
    rolling(h, i) # <<>> /\
        deviation(h, i) > h.delta_ms * median(rolling(h, i))[2]

\* The gate with | in place of &.
either_delta(h, i) ==
    IF percent_delta(h, i) \/ ms_delta(h, i) THEN 1 ELSE 0

\* stutter_frames = array(percent_delta & ms_delta, dtype=uint8)
both_deltas(h, i) ==
    IF percent_delta(h, i) /\ ms_delta(h, i) THEN 1 ELSE 0

\* CaptureFile.stutter_heuristic. min() of an empty series raises and the
\* except clause returns invalid_stutter, as the zero test does.
stutter_heuristic(h) ==
    LET n == Len(h.frametimes)
        invalid_stutter == [h EXCEPT !.kind = "invalid",
                                     !.stutter_frames = [i \in 1..n |-> 0]]
    IN IF n = 0 \/ \E i \in 1..n : h.frametimes[i] = 0 THEN invalid_stutter
       ELSE IF h.test_for_osc /\ oscillation_heuristic(h)
            THEN [h EXCEPT !.kind = "OSC"]
            ELSE [h EXCEPT !.kind = "stutter",
                           !.stutter_frames = [i \in 1..n |-> both_deltas(h, i)]]

Frametimes == UNION {[1..n -> 0..MaxFrametime] : n \in 0..MaxFrames}

InitHeur ==
    /\ NoImport /\ poll = NoPolling /\ col = NoColumn /\ pool = NoPool /\ alias = NoAlias
    /\ insp = NoInspection
    /\ \E ft \in Frametimes, w \in WindowSizes, t \in Thresholds, osc \in BOOLEAN :
          heur = [NoHeuristic EXCEPT !.phase = "called", !.frametimes = ft,
                                     !.window_size = w, !.delta_ms = t[1],
                                     !.delta_pct = t[2], !.test_for_osc = osc]

StutterHeuristic ==
    /\ heur.phase = "called"
    /\ heur' = [stutter_heuristic(heur) EXCEPT !.phase = "returned"]
    /\ UNCHANGED <<fileVars, statVars, det, poll, col, pool, alias, insp>>

SpecHeur == InitHeur /\ [][StutterHeuristic]_vars

-----------------------------------------------------------------------------
(* formats/capturefile.py: column downcasting *)

\* Cell values at both sides of the limits of the 8- and 16-bit types.
Samples ==
    {0 - 32769, 0 - 32768, 0 - 129, 0 - 128, 0 - 1, 0, 127, 128, 255, 256,
     32767, 32768, 65535, 65536}

SeqMin(t) == CHOOSE m \in {t[i] : i \in 1..Len(t)} : \A i \in 1..Len(t) : m <= t[i]

\* CaptureFile.return_optimal_dtype. The column is whole-numbered when its
\* first element is. The limits 4_294_967_296 and 2_147_483_648 are written
\* in units of 65_536. A column from 0 up that reaches 4_294_967_296 leaves
\* _type unbound and the return statement raises.
return_optimal_dtype(c) ==
    LET _min == SeqMin(c.data)
        _max == SeqMax(c.data, 1..Len(c.data))
    IN IF c.dtype = "object" THEN "category"
       ELSE IF ~c.first_is_whole THEN "float32"
       ELSE IF _min >= 0
            THEN IF _max < 256 THEN "uint8"
                 ELSE IF _max < 65536 THEN "uint16"
                 ELSE IF _max \div 65536 < 65536 THEN "uint32"
                 ELSE "raised"
       ELSE IF _min > 0 - 129 \/ _max < 128 THEN "int8"
       ELSE IF _min > 0 - 32769 \/ _max < 32768 THEN "int16"
       ELSE IF _min \div 65536 >= 0 - 32768 \/ _max \div 65536 < 32768 THEN "int32"
       ELSE "None"

\* col.astype(_type) of one cell: an integer that does not fit wraps around.
\* The cells of the model fit the 32-bit types and float32 as they are.
astype(v, type) ==
    CASE type = "uint8" -> v % 256
      [] type = "uint16" -> v % 65536
      [] type = "int8" -> ((v + 128) % 256) - 128
      [] type = "int16" -> ((v + 32768) % 65536) - 32768
      [] OTHER -> v

\* Series.nbytes of the column held as a type: the cells at the width of the
\* type; for a categorical, one int8 code per cell (fewer than 128
\* categories) and one 8-byte reference per category.
nbytes(c, type) ==
    CASE type \in {"uint8", "int8"} -> Len(c.data)
      [] type \in {"uint16", "int16"} -> 2 * Len(c.data)
      [] type \in {"uint32", "int32", "float32"} -> 4 * Len(c.data)
      [] type = "category" ->
            Len(c.data) + 8 * Cardinality({c.data[i] : i \in 1..Len(c.data)})
      [] OTHER -> 8 * Len(c.data)

\* CaptureFile.downcast_col for a column that is not exempt from compression.
\* original_size is col.memory_usage(), which counts the index of the column
\* along with its cells; the recast column is measured by its cells alone.
downcast_col(c) ==
    LET _type == return_optimal_dtype(c)
        original_size == nbytes(c, c.dtype) + c.index
    IN IF _type \in {"None", "raised"} \/ original_size < nbytes(c, _type)
       THEN [c EXCEPT !.type = _type, !.cast = c.data]
       ELSE [c EXCEPT !.type = _type, !.recast = TRUE,
                      !.cast = [i \in 1..Len(c.data) |-> astype(c.data[i], _type)]]

\* A column of a frame that is not empty: of strings (dtype object), of
\* numbers the first of which has a fractional part, or of whole numbers.
\* The index read_csv builds for it (a RangeIndex) takes 128 bytes.
InitColumn ==
    /\ NoImport /\ poll = NoPolling /\ heur = NoHeuristic /\ pool = NoPool /\ alias = NoAlias
    /\ insp = NoInspection
    /\ \E data \in UNION {[1..n -> Samples] : n \in 1..MaxCells},
          dtype \in {"object", "float64", "int64"}, index \in {128} :
          col = [NoColumn EXCEPT !.phase = "called", !.dtype = dtype,
                                 !.first_is_whole = (dtype = "int64"),
                                 !.data = data, !.index = index]

\* compress_dataframe on a table above CompressionMinSizeMB: data.apply(downcast_col).
DowncastCol ==
    /\ col.phase = "called"
    /\ col' = [downcast_col(col) EXCEPT !.phase = "returned"]
    /\ UNCHANGED <<fileVars, statVars, det, poll, heur, pool, alias, insp>>

\* compress_dataframe on a table below CompressionMinSizeMB: returned as it is.
BelowMinSize ==
    /\ col.phase = "called"
    /\ col' = [col EXCEPT !.phase = "skipped", !.cast = col.data]
    /\ UNCHANGED <<fileVars, statVars, det, poll, heur, pool, alias, insp>>

SpecColumn == InitColumn /\ [][DowncastCol \/ BelowMinSize]_vars

-----------------------------------------------------------------------------
(* gui/dialogs/main_window.py, gui/worker.py: concurrent imports *)

InitPool == NoImport /\ PureIdle

\* MainWindow.spawn_worker on the GUI thread, for one of two paths: a worker
\* is created for a path that is not a key of _instances yet; pool.start
\* queues it.
SpawnWorker ==
    /\ Len(pool.workers) < MaxRequests
    /\ \E path \in {"a.csv", "b.csv"} :
          /\ path \notin pool._instances
          /\ pool' = [pool EXCEPT !.workers =
                         Append(@, [path |-> path, state |-> "queued"])]
    /\ UNCHANGED <<fileVars, statVars, det, poll, heur, col, alias, insp>>

\* QThreadPool runs a queued worker once one of its threads is free.
Work ==
    /\ Cardinality({w \in 1..Len(pool.workers) :
                        pool.workers[w].state \in {"running", "set_up", "rejected"}})
          < MaxIOThreads
    /\ \E w \in 1..Len(pool.workers) :
          /\ pool.workers[w].state = "queued"
          /\ pool' = [pool EXCEPT !.workers[w].state = "running"]
    /\ UNCHANGED <<fileVars, statVars, det, poll, heur, col, alias, insp>>

\* create_plot_object up to its finally clause, on the worker's thread:
\* infer_format, whose integrity events list the file, and for a valid file
\* full_object_setup, which ends with the entry in _valid_instances and the
\* append to legend_order. The
\* outcome of PlotObject(path): a valid file that is set up, a file made
\* Invalid, no capture file at all (infer_format raised), or a RuntimeError.
FullObjectSetup ==
    /\ \E w \in 1..Len(pool.workers),
          outcome \in {"valid", "invalid", "no_file", "destroyed"} :
          LET path == pool.workers[w].path
          IN /\ pool.workers[w].state = "running"
             /\ pool' = [pool EXCEPT
                   !.workers[w].state =
                       IF outcome = "valid" THEN "set_up"
                       ELSE IF outcome = "destroyed" THEN "destroyed" ELSE "rejected",
                   !.listed = IF outcome \in {"valid", "invalid"}
                              THEN @ \cup {path} ELSE @,
                   !._valid_instances = IF outcome = "valid" THEN @ \cup {path} ELSE @,
                   !.legend_order = IF outcome = "valid" THEN Append(@, path) ELSE @,
                   !.writes = IF outcome = "valid"
                              THEN @ \cup {<<"_valid_instances", "worker">>} ELSE @]
    /\ UNCHANGED <<fileVars, statVars, det, poll, heur, col, alias, insp>>

\* The finally clause of create_plot_object, still on the worker's thread, and
\* the return to Worker.work, which emits the result (after a RuntimeError it
\* emits nothing).
Finally ==
    /\ \E w \in 1..Len(pool.workers) :
          /\ pool.workers[w].state \in {"set_up", "rejected", "destroyed"}
          /\ pool' = [pool EXCEPT
                !.workers[w].state =
                    IF pool.workers[w].state = "destroyed" THEN "aborted" ELSE "emitted",
                !._instances = @ \cup {pool.workers[w].path},
                !.writes = @ \cup {<<"_instances", "worker">>}]
    /\ UNCHANGED <<fileVars, statVars, det, poll, heur, col, alias, insp>>

\* MainWindow.add_file_to_models, the slot of the result signal on the GUI
\* thread: it updates the file's icon and the combo models.
AddFileToModels ==
    /\ \E w \in 1..Len(pool.workers) :
          /\ pool.workers[w].state = "emitted"
          /\ pool' = [pool EXCEPT !.workers[w].state = "done"]
    /\ UNCHANGED <<fileVars, statVars, det, poll, heur, col, alias, insp>>

\* MainWindow.remove_all_files on the GUI thread, with files in the list:
\* PlotObject.remove_all_objects assigns two empty registries and an empty
\* legend order.
RemoveAllFiles ==
    /\ pool.listed # {}
    /\ pool' = [pool EXCEPT !.listed = {}, !._instances = {}, !._valid_instances = {},
                            !.legend_order = <<>>,
                            !.writes = @ \cup {<<"_instances", "gui">>,
                                               <<"_valid_instances", "gui">>}]
    /\ UNCHANGED <<fileVars, statVars, det, poll, heur, col, alias, insp>>

NextPool ==
    \/ SpawnWorker
    \/ Work
    \/ FullObjectSetup
    \/ Finally
    \/ AddFileToModels
    \/ RemoveAllFiles

SpecPool == InitPool /\ [][NextPool]_vars

-----------------------------------------------------------------------------
(* formats/frameview.py: the alias tables of the FrameView versions *)

\* The table each version is declared with, before the composition.
OwnAliases ==
    [v \in {"1.0", "1.1", "1.2", "1.4"} |->
        CASE v = "1.4" -> ("System Latency" :> "MsPCLatency")
          [] v = "1.2" -> ("Battery Charge Rate" :> "Battery Drain Rate(W)" @@
                           "Battery Level" :> "Battery Percentage")
          [] v = "1.1" -> ("NVIDIA GPU Chip Power" :> "GPUOnlyPwr(W) (API)" @@
                           "NVIDIA GPU Board Power" :> "NV Pwr(W) (API)" @@
                           "AMD GPU Chip Power" :> "AMDPwr(W) (API)" @@
                           "System Latency" :> "MsRenderPresentLatency" @@
                           "GPU Frequency" :> "GPU0Clk(MHz)" @@
                           "GPU Temperature" :> "GPU0Temp(C)" @@
                           "GPU Utilization" :> "GPU0Util(%)" @@
                           "CPU Power" :> "CPU Package Power(W)" @@
                           "CPU Frequency" :> "CPUClk(MHz)" @@
                           "CPU Temperature" :> "CPU Package Temp(C)" @@
                           "CPU Utilization" :> "CPUUtil(%)")
          [] v = "1.0" -> ("Elapsed Time" :> "TimeInSeconds" @@
                           "Frametimes" :> "MsBetweenPresents" @@
                           "Render Present Latency" :> "MsUntilDisplayed" @@
                           "Unsynchronized Frames" :> "AllowsTearing" @@
                           "NVIDIA GPU Chip Power" :> "GPUOnlyPower(W)" @@
                           "NVIDIA GPU Board Power" :> "TotalPower(W)" @@
                           "AMD GPU Chip Power" :> "AMDPower(W)")]

\* A dict union in which the left operand's value wins.
or_keeping_left(a, b) ==
    [k \in DOMAIN a \cup DOMAIN b |-> IF k \in DOMAIN a THEN a[k] ELSE b[k]]

\* dict.__or__, a | b: the keys of both, the right operand's value winning.
or(a, b) ==
    [k \in DOMAIN a \cup DOMAIN b |-> IF k \in DOMAIN b THEN b[k] ELSE a[k]]

\* The three assignments under "Incremental header changes", in their order
\* and with their operands in the order written.
HEADER_ALIASES ==
    LET v11 == or(OwnAliases["1.0"], OwnAliases["1.1"])
        v12 == or(OwnAliases["1.2"], v11)
        v14 == or(v12, OwnAliases["1.4"])
    IN [v \in DOMAIN OwnAliases |->
           CASE v = "1.0" -> OwnAliases["1.0"]
             [] v = "1.1" -> v11
             [] v = "1.2" -> v12
             [] v = "1.4" -> v14]

\* CaptureFile.preferred_aliases: aliases(version).get(generic_phrase, "None").
preferred_aliases(v, generic_phrase) ==
    IF generic_phrase \in DOMAIN HEADER_ALIASES[v]
    THEN HEADER_ALIASES[v][generic_phrase] ELSE "None"

\* A FrameView file of any version is asked for a phrase that some version
\* declares, or for one that none does.
InitAlias ==
    /\ NoImport /\ poll = NoPolling /\ heur = NoHeuristic /\ col = NoColumn
    /\ pool = NoPool /\ insp = NoInspection
    /\ \E v \in DOMAIN OwnAliases,
          phrase \in UNION {DOMAIN OwnAliases[u] : u \in DOMAIN OwnAliases}
                     \cup {"GPU Voltage"} :
          alias = [NoAlias EXCEPT !.phase = "called", !.version = v, !.phrase = phrase]

PreferredAliases ==
    /\ alias.phase = "called"
    /\ alias' = [alias EXCEPT !.phase = "returned",
                              !.header = preferred_aliases(alias.version, alias.phrase)]
    /\ UNCHANGED <<fileVars, statVars, det, poll, heur, col, pool, insp>>

SpecAlias == InitAlias /\ [][PreferredAliases]_vars

-----------------------------------------------------------------------------
(* formats/frameview.py, presentmon.py: the fallback headers and the
   properties of a FrameView file, evaluation after evaluation *)

\* CaptureFile.header_by_alias: a registered fallback goes before the
\* preferred header of the version.
header_by_alias(v, generic_phrase) ==
    IF generic_phrase \in DOMAIN v.fallbacks_in_use
    THEN v.fallbacks_in_use[generic_phrase]
    ELSE preferred_aliases(v.version, generic_phrase)

\* FrameView.register_fallbacks with register_fallback_header and
\* remove_fallback_header. non_zero is `valid`, min(self.column(header)) != 0
\* over the visible rows; a header that the table lacks yields the
\* placeholder column.
register_fallbacks(v) ==
    IF v.version # "1.4" THEN v
    ELSE LET latency == "System Latency"
             header == header_by_alias(v, latency)
             present == header = preferred_aliases(v.version, latency)
                        /\ header \in v.headers
             non_zero == header \in v.headers /\
                          \A i \in (v.offset + 1)..v.height : v.data[i][header] # 0
         IN IF present /\ non_zero /\ latency \in DOMAIN v.fallbacks_in_use
            THEN [v EXCEPT !.fallbacks_in_use = [k \in {} |-> ""]]
            ELSE IF ~(present /\ non_zero) /\ latency \notin DOMAIN v.fallbacks_in_use
            THEN [v EXCEPT !.fallbacks_in_use =
                     [k \in {latency} |-> "MsRenderPresentLatency"]]
            ELSE v

\* PresentMon.inspect_consistency(header): `ideal`, the column of the visible
\* rows holding exactly one value.
inspect_consistency(v, header) ==
    Cardinality({v.data[i][header] : i \in (v.offset + 1)..v.height}) = 1

\* PresentMon.consistent_property: self.inspection.get(key, False), the
\* InspectionItem stored under the key or the bool False.
consistent_property(v, key) ==
    IF key \in DOMAIN v.inspection
    THEN [type |-> "InspectionItem", passed |-> v.inspection[key]]
    ELSE [type |-> "bool", value |-> FALSE]

\* PresentMon.application_property: the name in the first row of the table,
\* with "*" appended when `not consistent_property(...)`. InspectionItem is a
\* dataclass that defines neither __bool__ nor __len__: its instances are
\* true.
application_property(v) ==
    LET first_result == <<v.data[1]["Application"]>>
        consistent == consistent_property(v, "Application Consistency")
        truth == IF consistent.type = "bool" THEN consistent.value ELSE TRUE
    IN IF ~truth THEN Append(first_result, "*") ELSE first_result

\* PresentMon.evaluate_integrity once the window's hash has changed:
\* FrameView.inspect_capture, which starts with register_fallbacks, and
\* define_properties, no saved properties being in use.
evaluate_frameview(v) ==
    LET v1 == register_fallbacks(v)
        v2 == [v1 EXCEPT !.inspection =
                  [k \in {"Application Consistency"} |->
                      inspect_consistency(v1, "Application")]]
    IN [v2 EXCEPT !.Application = application_property(v2)]

\* A FrameView file of version 1.2 or 1.4 has been parsed: each row holds the
\* name of the presenting process and the two latency columns, 0 where the
\* driver reported none; read_log dropped the MsPCLatency column if it was NA
\* on every row.
InitInspect ==
    /\ NoImport /\ poll = NoPolling /\ heur = NoHeuristic /\ col = NoColumn
    /\ pool = NoPool /\ alias = NoAlias
    /\ \E v \in {"1.2", "1.4"}, n \in 2..MaxRows, with_pc_latency \in BOOLEAN :
          \E rows \in [1..n -> [Application : {"game.exe", "dwm.exe"},
                                 MsPCLatency : {0, 9},
                                 MsRenderPresentLatency : {9}]] :
             insp = [NoInspection EXCEPT
                        !.phase = "parsed", !.version = v, !.data = rows,
                        !.height = n,
                        !.headers = {"Application", "MsRenderPresentLatency"} \cup
                                    (IF with_pc_latency /\ v = "1.4"
                                     THEN {"MsPCLatency"} ELSE {})]

\* The last line of PresentMon.__init__: the first evaluation.
InspectCapture ==
    /\ insp.phase = "parsed"
    /\ insp' = [evaluate_frameview(insp) EXCEPT !.phase = "inspected"]
    /\ UNCHANGED <<fileVars, statVars, det, poll, heur, col, pool, alias>>

\* trim_time_axis or reset_time_axis leaving another window of at least two
\* rows, and the evaluation that ends them.
TrimInspected ==
    /\ insp.phase = "inspected" /\ insp.runs < MaxCalls
    /\ \E o \in 0..Len(insp.data), h \in 0..Len(insp.data) :
          /\ h - o >= 2 /\ <<o, h>> # <<insp.offset, insp.height>>
          /\ insp' = evaluate_frameview(
                         [insp EXCEPT !.offset = o, !.height = h, !.runs = @ + 1])
    /\ UNCHANGED <<fileVars, statVars, det, poll, heur, col, pool, alias>>

SpecInspect == InitInspect /\ [][InspectCapture \/ TrimInspected]_vars

-----------------------------------------------------------------------------
(* Properties of the import and of the window *)

\* An assignment changes the value when the attribute exists and holds another one.
ChangingAssignments ==
    SelectSeq(file.assigned, LAMBDA a : a[1] # Unset /\ a[1] # a[2])

\* C1: every assignment to integrity whose value differs from the current value
\* emits exactly one (path, new value) event, in assignment order, and an
\* assignment of the value the file already holds emits none: the events
\* emitted are exactly the changing assignments, in their order.
C1_EventsAreTheChanges ==
    file.emitted =
        [k \in 1..Len(ChangingAssignments) |-> <<Path, ChangingAssignments[k][2]>>]

\* An import during which two assignments changed the value and a third one
\* assigned the value the file already held.
C1_Witness ==
    /\ Len(file.emitted) >= 2
    /\ \E k \in 1..Len(file.assigned) :
          file.assigned[k][1] # Unset /\ file.assigned[k][1] = file.assigned[k][2]

\* C2: once integrity has been set to Invalid during an import, no later step
\* of the same import assigns it a non-Invalid value.
C2_InvalidIsAbsorbing ==
    \A k \in 1..Len(file.assigned) :
        file.assigned[k][1] = "Invalid" => file.assigned[k][2] = "Invalid"

\* The integrity the inspection results call for.
GradeOf(inspection) ==
    IF \A item \in DOMAIN inspection : inspection[item] THEN "Ideal"
    ELSE IF \A item \in MAJOR_INSPECTION_ITEMS(app, version) : inspection[item] THEN "Dirty"
    ELSE "Mangled"

\* C3: after every inspection run that is not skipped, integrity is Ideal iff
\* every item passed, Dirty iff some item failed but every major item passed,
\* and Mangled otherwise.
C3_IntegrityFollowsInspection ==
    file.graded # Unset => file.graded = GradeOf(file.inspection)

WindowIsValid(f) ==
    /\ 0 <= f.offset /\ f.offset < f.height /\ f.height <= Rows
    /\ f.height - f.offset >= 2

\* The window a trim asks for, before the rejection test.
RequestedOffset(f, relation, cutoff) ==
    CASE relation = "Before" -> CountBelow(f.times, cutoff)
      [] relation = "Drop" -> IF f.offset >= CountBelow(f.times, cutoff) THEN f.offset
                              ELSE CountBelow(f.times, cutoff)
      [] OTHER -> f.offset

RequestedHeight(f, relation, cutoff) ==
    IF relation = "After" /\ CountAbove(f.times, cutoff) < Rows
    THEN Rows - CountAbove(f.times, cutoff)
    ELSE f.height

TrimOrResetStep ==
    LET o == RequestedOffset(file, last'.relation, last'.cutoff)
        h == RequestedHeight(file, last'.relation, last'.cutoff)
    IN pc = "setup" /\ Rows >= 2 /\ last'.op \in {"trim_time_axis", "reset_time_axis"}
       => /\ WindowIsValid(file')
          /\ last'.op = "reset_time_axis" => file'.offset = 0 /\ file'.height = Rows
          /\ last'.op = "trim_time_axis" =>
                IF o >= h \/ h - o < 2
                THEN file'.offset = 0 /\ file'.height = Rows
                ELSE file'.offset = o /\ file'.height = h

\* C4: after any sequence of trim_time_axis and reset_time_axis calls on a file
\* of at least two rows, 0 <= offset < height <= total rows and height - offset
\* >= 2; a trim that would leave fewer than 2 visible rows or offset >= height
\* resets the window to offset 0 and height = total rows.
C4_WindowStaysValid == [][TrimOrResetStep]_vars

\* A trim of everything before a cutoff past the last timestamp, which was
\* rejected, made on a file whose window an earlier trim had narrowed.
C4_Witness ==
    /\ pc = "setup" /\ Rows >= 3
    /\ last.op = "trim_time_axis" /\ last.relation = "Before" /\ last.cutoff = MaxRows
    /\ file.offset = 0 /\ file.height = Rows
    /\ file.graded # Unset /\ Len(file.assigned) = 1

\* C5: a calculate_stats run that directly follows another one, with offset,
\* height and configuration unchanged, leaves every statistics cell as it was,
\* and every section it consults is a cache hit: the section's hit and total
\* counters both grow by exactly one. (The frame-time sections return before
\* the look-up when the frame times are tainted.)
C5_SecondRunIsCached ==
    [][/\ last'.op = "calculate_stats" /\ last'.repeated
       /\ plot'._cache_hits["Display"][2] = plot._cache_hits["Display"][2] + 1
       =>
         /\ plot'.stats = plot.stats
         /\ \A s \in Sections :
               plot'._cache_hits[s] =
                   IF ~(tainted_frametimes(file) /\
                          s \in {"Performance", "Percentiles", "Relative Percentiles"})
                   THEN <<plot._cache_hits[s][1] + 1, plot._cache_hits[s][2] + 1>>
                   ELSE plot._cache_hits[s]]_vars

\* Three runs on a file whose window was trimmed after its setup, the last run
\* being a hit in every section and the only hit of the Display section.
C5_Witness ==
    /\ last.op = "calculate_stats" /\ last.repeated
    /\ file.offset > 0 /\ ~tainted_frametimes(file)
    /\ plot._cache_hits["Display"] = <<1, 3>>
    /\ \A s \in Sections : plot._hashes[s] # 0 /\ plot._cache_hits[s][1] >= 1

\* score(k) > score(j), for fingerprints k and j of the table.
Better(d, k, j) ==
    shared(d, k) * Cardinality(d.table[j]) > shared(d, j) * Cardinality(d.table[k])

\* The fingerprints with a score above 0 that no other fingerprint beats.
BestMatches(d) ==
    {k \in 1..Len(d.table) :
        shared(d, k) > 0 /\ \A j \in 1..Len(d.table) : ~Better(d, j, k)}

LoopEnded == det.phase \in {"matching", "returned"} /\ det.i > Len(det.table)

\* C6: infer_format selects, among the fingerprints whose overlap score is
\* above 0, one with the maximum score, the one compared last when several
\* share the maximum, and none when no score is above 0; the selection is a
\* function of the header set and the fingerprint table alone.
C6_SelectsLastBestMatch ==
    LoopEnded =>
        det.application =
            IF BestMatches(det) = {} THEN 0
            ELSE CHOOSE k \in BestMatches(det) : \A j \in BestMatches(det) : j <= k

\* Two fingerprints of different sizes tie at the maximum score and the one
\* compared later is selected.
C6_Witness ==
    /\ LoopEnded
    /\ \E k \in BestMatches(det) :
          /\ k < det.application
          /\ det.table[k] # det.table[det.application]
          /\ Cardinality(det.table[k]) # Cardinality(det.table[det.application])

\* C7: for every outcome of header extraction, fingerprint matching and parser
\* construction, infer_format returns the matched parser's file or a Verbatim
\* file, never nothing.
C7_AlwaysReturnsAFile ==
    det.phase = "returned" => det.result \in {"parser", "Verbatim"}

\* The parsed timestamps yield no positive delta, and the call has returned.
NoPositiveDelta == poll.parses /\ Len(positive_time_deltas(poll.time)) = 0

\* C8 (as stated): when a timestamp column yields no positive delta,
\* infer_polling_rate returns exactly 1.0 and, when it returns, the numeric
\* code of the file's integrity is at least Dirty's.
C8_ReturnsOneAndAtLeastDirty ==
    poll.phase = "inferred" /\ NoPositiveDelta =>
        /\ poll.rate = <<1, 1>>
        /\ id(poll.integrity) >= id("Dirty")

\* C8 (amended): when the parsed timestamps yield no positive delta,
\* infer_polling_rate returns exactly 1.0 and, when it returns, integrity is
\* not Ideal: an Ideal file has become Dirty, and any other value is the one
\* the call found, which is Pending in the GPU-Z constructor and otherwise has
\* a code of at least Dirty's. When a timestamp cannot be parsed it returns
\* exactly 1.0 as well and leaves integrity as it found it.
C8_ReturnsOneAndNeverIdeal ==
    /\ poll.phase = "inferred" /\ NoPositiveDelta =>
          /\ poll.rate = <<1, 1>>
          /\ poll.integrity = IF poll.called_with = "Ideal" THEN "Dirty"
                              ELSE poll.called_with
          /\ poll.integrity # "Ideal"
          /\ \/ poll.integrity = "Pending" /\ poll.parser = "GPU-Z"
             \/ id(poll.integrity) >= id("Dirty")
    /\ poll.phase = "inferred" /\ ~poll.parses =>
          poll.rate = <<1, 1>> /\ poll.integrity = poll.called_with

\* A RivaTuner log with frame times whose timestamps never advance was Ideal
\* at the call and is Dirty at the return.
C8_Witness ==
    /\ poll.phase = "inferred" /\ NoPositiveDelta
    /\ Len(poll.time) >= 2
    /\ poll.called_with = "Ideal" /\ poll.integrity = "Dirty"

\* The centered rolling median of frame i exists and the frame's distance to
\* it is more than StutterDeltaPct percent of the median.
ExceedsRelative(i) ==
    /\ rolling(heur, i) # <<>>
    /\ LET m == median(rolling(heur, i))
       IN \/ (heur.frametimes[i] * m[2] - m[1]) * 100 > heur.delta_pct * m[1]
          \/ (m[1] - heur.frametimes[i] * m[2]) * 100 > heur.delta_pct * m[1]

\* ... and is more than StutterDeltaMs.
ExceedsAbsolute(i) ==
    /\ rolling(heur, i) # <<>>
    /\ LET m == median(rolling(heur, i))
       IN \/ heur.frametimes[i] * m[2] - m[1] > heur.delta_ms * m[2]
          \/ m[1] - heur.frametimes[i] * m[2] > heur.delta_ms * m[2]

Counted(i) == heur.stutter_frames # <<>> /\ heur.stutter_frames[i] = 1

\* C9 (as stated): when oscillation is not reported, a frame is counted as a
\* stutter frame if and only if its distance to the centered rolling median
\* exceeds the relative and the absolute threshold.
C9_CountedIffBothExceeded ==
    heur.phase = "returned" /\ heur.kind # "OSC" =>
        \A i \in 1..Len(heur.frametimes) :
            Counted(i) <=> ExceedsRelative(i) /\ ExceedsAbsolute(i)

\* C9 (amended): when no frame time is zero and oscillation is not reported,
\* a frame is counted as a stutter frame if and only if its distance to the
\* centered rolling median exceeds the relative and the absolute threshold;
\* a frame that exceeds only one of them is never counted; and when a frame
\* time is zero the heuristic does not run and no frame is counted.
C9_CountedIffBothExceededWithoutZeros ==
    heur.phase = "returned" /\ heur.kind # "OSC" =>
        /\ heur.kind = "stutter" <=>
              /\ Len(heur.frametimes) > 0
              /\ \A i \in 1..Len(heur.frametimes) : heur.frametimes[i] # 0
        /\ \A i \in 1..Len(heur.frametimes) :
              /\ heur.kind = "stutter" =>
                    (Counted(i) <=> ExceedsRelative(i) /\ ExceedsAbsolute(i))
              /\ heur.kind = "invalid" => ~Counted(i)
              /\ Counted(i) => ExceedsRelative(i) /\ ExceedsAbsolute(i)

\* A run that counts one frame and leaves out another that exceeds exactly
\* one of the two thresholds.
C9_Witness ==
    /\ heur.phase = "returned" /\ heur.kind = "stutter"
    /\ \E i, j \in 1..Len(heur.frametimes) :
          /\ Counted(i)
          /\ ~Counted(j)
          /\ ExceedsRelative(j) # ExceedsAbsolute(j)

\* The value range of an integer type contains v.
Holds(type, v) ==
    CASE type = "uint8" -> 0 <= v /\ v < 256
      [] type = "uint16" -> 0 <= v /\ v < 65536
      [] type = "uint32" -> 0 <= v /\ v \div 65536 < 65536
      [] type = "int8" -> 0 - 128 <= v /\ v < 128
      [] type = "int16" -> 0 - 32768 <= v /\ v < 32768
      [] type = "int32" -> 0 - 32768 <= v \div 65536 /\ v \div 65536 < 32768
      [] OTHER -> FALSE

\* C10: for every column of whole numbers, the integer type chosen by
\* return_optimal_dtype has a value range that contains the column's minimum
\* and its maximum, and downcasting the column changes none of its values.
C10_DtypeHoldsTheColumn ==
    col.phase = "returned" /\ col.dtype = "int64" =>
        /\ Holds(col.type, SeqMin(col.data))
        /\ Holds(col.type, SeqMax(col.data, 1..Len(col.data)))
        /\ col.cast = col.data

\* C11: for every column of any table, the size in bytes of the data of the
\* column compress_dataframe returns is at most that of the original
\* column's data, the original being kept whenever the recast is larger.
C11_ColumnNeverGrows ==
    col.phase \in {"returned", "skipped"} =>
        /\ nbytes(col, IF col.recast THEN col.type ELSE col.dtype) <= nbytes(col, col.dtype)
        /\ nbytes(col, col.type) > nbytes(col, col.dtype) => ~col.recast

\* C17: a GPU-Z, PCAT or LDAT file never has an integrity better than
\* Partial: through parsing, polling-rate inference, valid-file setup and
\* later trims and resets its integrity is never Ideal and never Dirty.
C17_MonitorsNeverBetterThanPartial ==
    poll.parser \in Monitors => poll.integrity \notin {"Ideal", "Dirty"}

\* A GPU-Z log whose timestamps yield no positive delta was set up and then
\* trimmed, and is graded Partial.
C17_Witness ==
    /\ poll.parser = "GPU-Z" /\ poll.phase = "setup" /\ poll.trims > 0
    /\ poll.parses /\ Len(positive_time_deltas(poll.time)) = 0
    /\ poll.integrity = "Partial"

\* C18: the integrity codes are strictly ordered Ideal < Dirty < Partial <
\* Mangled < Invalid, and valid() is true for exactly Ideal, Dirty, Partial
\* and Mangled (false for Initialized, Pending and Invalid): the files that
\* create_plot_object sets up hold one of the four, every other is rejected.
C18_CodesOrderedAndFourAreValid ==
    /\ id("Ideal") < id("Dirty") /\ id("Dirty") < id("Partial")
    /\ id("Partial") < id("Mangled") /\ id("Mangled") < id("Invalid")
    /\ \A i \in Integrity : valid(i) <=> i \in {"Ideal", "Dirty", "Partial", "Mangled"}
    /\ poll.phase = "setup" => poll.integrity \in {"Ideal", "Dirty", "Partial", "Mangled"}
    /\ poll.phase = "failed" => poll.integrity = "Invalid"

\* An LDAT log whose read failed stayed Pending, valid() was false of it and
\* create_plot_object rejected it.
C18_Witness ==
    /\ poll.phase = "failed" /\ poll.parser = "LDAT" /\ ~poll.parses
    /\ poll.integrity = "Invalid"

\* C19: the alias tables compose incrementally over 1.0 < 1.1 < 1.2 < 1.4:
\* a phrase that resolves in a version's predecessor resolves in the version,
\* and a phrase's column in a version is the one of the version's own table
\* when that table declares the phrase, the predecessor's column otherwise.
C19_AliasesComposeIncrementally ==
    alias.phase = "returned" /\ alias.version # "1.0" =>
        LET before == CASE alias.version = "1.1" -> "1.0"
                        [] alias.version = "1.2" -> "1.1"
                        [] alias.version = "1.4" -> "1.2"
            own == OwnAliases[alias.version]
        IN /\ preferred_aliases(before, alias.phrase) # "None" => alias.header # "None"
           /\ alias.header = IF alias.phrase \in DOMAIN own THEN own[alias.phrase]
                             ELSE preferred_aliases(before, alias.phrase)

\* Version 1.4 was asked for a phrase that 1.0 declares and 1.1 redefines, and
\* answered with the column of 1.1.
C19_Witness ==
    /\ alias.phase = "returned" /\ alias.version = "1.4"
    /\ alias.phrase = "NVIDIA GPU Chip Power"
    /\ alias.header = "GPUOnlyPwr(W) (API)"

-----------------------------------------------------------------------------
(* Properties of the import as a whole *)

\* C12: statistics are computed only for files whose integrity is valid at
\* that moment: a step that runs calculate_stats or writes a statistics cell
\* starts and ends with the file's integrity among Ideal, Dirty, Partial and
\* Mangled, and no such step is ever taken for a file ingested verbatim.
C12_StatsOnlyForValidFiles ==
    [][\/ plot'.stats # plot.stats
       \/ plot'._cache_hits # plot._cache_hits
       \/ plot'._hashes # plot._hashes
       =>
         /\ app # "Verbatim"
         /\ file.integrity \in {"Ideal", "Dirty", "Partial", "Mangled"}
         /\ file'.integrity \in {"Ideal", "Dirty", "Partial", "Mangled"}]_vars

\* A file was set up with its statistics written, after another file's parse
\* had failed and left it without statistics.
C12_Witness ==
    /\ pc = "setup" /\ last.op = "create_plot_object"
    /\ plot._valid_instances
    /\ plot.stats["Time"] # NA /\ plot.stats["Capture"] = <<file.integrity>>
    /\ file.integrity \in {"Dirty", "Partial", "Mangled"}
\* C15: an import that has ended has registered an object under the file's
\* path, and that object has a capture file whose integrity is one of the
\* valid grades or Invalid: never Initialized, Pending or unset, and never an
\* object registered without a capture file.
C15_ImportEndsRegisteredAndGraded ==
    pc \in {"setup", "failed"} =>
        /\ plot._instances /\ plot.file
        /\ file.integrity \in {"Ideal", "Dirty", "Partial", "Mangled", "Invalid"}

\* C16: after any sequence of import, restore of a saved trim, trim and reset
\* on a valid file, the zero-filled placeholder that column_by_alias returns
\* for an unresolved phrase has exactly frames() = height - offset elements.
C16_PlaceholderMatchesFrames ==
    pc = "setup" => file.zero_col = frames(file)

\* C20: after the visible window has changed, the next call of stutter()
\* returns a result computed from the new window: a calculate_stats run that
\* misses the Stutter section's cache, and so calls file.stutter(), ends with
\* the stutter data of the window the file shows.
C20_StutterFollowsWindow ==
    [][/\ last'.op = "calculate_stats"
       /\ ~Hit(plot, file, "Stutter", settings.DecimalPlaces)
       => plot'.stutter_data = calculate_stutter(file)]_vars

-----------------------------------------------------------------------------
(* Properties of the time record and of the inspected window *)

C22_InspectionRunsIffWindowChanged ==
    [][/\ pc \in {"parsed", "setup"}
       /\ last'.op \in {"evaluate_integrity", "trim_time_axis", "reset_time_axis"}
       => IF HashWindow(file'.height, file'.offset) # file.integrity_hash
          THEN /\ file'.integrity_hash = HashWindow(file'.height, file'.offset)
               /\ file'.inspection = inspect_capture(file')
               /\ file'.graded = file'.integrity
          ELSE /\ file'.integrity_hash = file.integrity_hash
               /\ file'.inspection = file.inspection
               /\ file'.uses_saved_properties = file.uses_saved_properties
               /\ file'.integrity = file.integrity
               /\ file'.assigned = <<>>]_vars

\* A trim narrowed the window of a FrameView file and the same trim, made
\* again, found the window it had recorded and assigned nothing.
C22_Witness ==
    /\ pc = "setup" /\ app = "FrameView"
    /\ last.op = "trim_time_axis" /\ last.repeated /\ last.relation = "Before"
    /\ file.offset > 0 /\ file.assigned = <<>>
    /\ file.integrity_hash = HashWindow(file.height, file.offset)

\* C23 (as stated): trim_time_axis with relation "Drop" never moves offset
\* backward: for every prior window and every cutoff, offset after the call
\* is greater than or equal to offset before the call.
C23_DropNeverMovesOffsetBack ==
    [][pc = "setup" /\ last'.op = "trim_time_axis" /\ last'.relation = "Drop"
       => file'.offset >= file.offset]_vars

\* C23 (amended): trim_time_axis with relation "Drop" sets offset to the
\* larger of the prior offset and the number of timestamps below the cutoff
\* and leaves height alone, so offset does not move backward, unless that
\* window is rejected (offset >= height or fewer than 2 visible rows): then
\* the window is reset to the full file and offset is 0.
C23_DropRatchetsUnlessRejected ==
    [][pc = "setup" /\ last'.op = "trim_time_axis" /\ last'.relation = "Drop"
       => LET o == RequestedOffset(file, "Drop", last'.cutoff)
          IN IF o >= file.height \/ file.height - o < 2
             THEN file'.offset = 0 /\ file'.height = file.rows
             ELSE /\ file'.offset = o /\ file'.offset >= file.offset
                  /\ file'.height = file.height]_vars

\* A "Drop" at cutoff 0, below which no timestamp lies, left the offset an
\* earlier trim had set where it was.
C23_Witness ==
    /\ pc = "setup" /\ last.op = "trim_time_axis" /\ last.relation = "Drop"
    /\ last.cutoff = 0 /\ CountBelow(file.times, 0) = 0
    /\ file.offset > 0

\* C30: whenever the visible window (offset, height) of a PresentMon-family
\* file changes, by a trim, a reset or the restoring of a saved trim at
\* import, the inspection is run for the new window: after each such
\* operation the window recorded by the last inspection run equals the
\* current (offset, height).
C30_InspectedWindowIsCurrent ==
    /\ pc = "setup" /\ app \in {"FrameView", "OCAT"}
    /\ last.op \in {"create_plot_object", "trim_time_axis", "reset_time_axis"}
    => file.integrity_hash = HashWindow(file.height, file.offset)

-----------------------------------------------------------------------------
(* Properties of a FrameView file's fallbacks and properties *)

\* C24: for a FrameView 1.4 file, after each integrity evaluation the System
\* Latency fallback header is in use exactly when the preferred column is
\* absent or unusable (contains a zero) in the visible window; when a later
\* window makes the preferred column usable again, the fallback is removed.
C24_FallbackIffLatencyUnusable ==
    insp.phase = "inspected" /\ insp.version = "1.4" =>
        ("System Latency" \in DOMAIN insp.fallbacks_in_use
            <=> \/ "MsPCLatency" \notin insp.headers
                \/ \E i \in (insp.offset + 1)..insp.height :
                       insp.data[i]["MsPCLatency"] = 0)

\* C28: application_property returns the first application name with a
\* trailing asterisk exactly when the Application Consistency inspection
\* item did not pass, and without an asterisk exactly when it passed.
C28_AsteriskIffInconsistent ==
    insp.phase = "inspected" =>
        insp.Application =
            IF insp.inspection["Application Consistency"]
            THEN <<insp.data[1]["Application"]>>
            ELSE <<insp.data[1]["Application"], "*">>

-----------------------------------------------------------------------------
(* Properties of the oscillation check *)

\* C25: in the oscillation check, a rolling window is marked as oscillating
\* only if its interquartile range Q3 - Q1 is at least the configured
\* OscDeltaMs value taken in milliseconds (4 ms by default) and its relative
\* interquartile range Q3 / Q1 - 1 is at least OscDeltaPct percent.
C25_MarkedOnlyAboveBothThresholds ==
    heur.phase = "returned" /\ heur.test_for_osc /\ heur.kind # "invalid" =>
        \A i \in 1..Len(heur.frametimes) :
            osc_frame(heur, i) =>
                LET q1 == quantile(rolling(heur, i), 1)
                    q3 == quantile(rolling(heur, i), 3)
                IN /\ q3 - q1 >= 4 * OscDeltaMs
                   /\ (q3 - q1) * 100 >= OscDeltaPct * q1

-----------------------------------------------------------------------------
(* Properties of the statistics after trims *)

\* C13: whenever the frame times of the visible window are tainted when
\* calculate_stats runs, the Performance and Percentiles cells read "N/A"
\* once it has run, whatever trims and resets came before.
C13_TaintedCellsReadNA ==
    last.op = "calculate_stats" /\ tainted_frametimes(file) =>
        plot.stats["Performance"] = NA /\ plot.stats["Percentiles"] = NA

\* C26: after every calculate_stats run on an untainted file, each Relative
\* Percentiles cell equals (the current percentile FPS cell / the current
\* Average FPS cell) - 1 as a percentage, for any preceding sequence of trims
\* and configuration changes, a change of the percentile method alone
\* included.
C26_RelativeCellsFollowTheTable ==
    last.op = "calculate_stats" /\ ~tainted_frametimes(file) =>
        plot.stats["Relative Percentiles"] =
            <<plot.stats["Performance"], plot.stats["Percentiles"],
              settings.DecimalPlaces>>

\* C27: a forced stutter update (update_stutter_metrics) both recomputes the
\* file's stutter result and rewrites the Stutter statistics cells from that
\* new result, also when offset, height and decimal precision are unchanged
\* since the last computation (after only the stutter thresholds changed).
C27_ForcedUpdateRewritesCells ==
    last.op = "update_stutter_parameters" =>
        /\ plot.stutter_data = calculate_stutter(file)
        /\ plot.stats["Stutter"] = <<plot.stutter_data, settings.DecimalPlaces>>

-----------------------------------------------------------------------------
(* Properties of concurrent imports *)

\* C14: during concurrent imports no worker thread writes the registries
\* _instances and _valid_instances: every write to them is performed by the
\* coordinating (GUI) thread.
C14_OnlyCoordinatorWritesRegistry ==
    \A wr \in pool.writes : wr[2] = "gui"

\* C29: for any interleaving of import requests and worker completions, a
\* file path is processed by at most one worker at a time and appears at most
\* once in the legend order: no two workers whose import has not finished
\* hold the same path.
C29_OneWorkerPerPath ==
    /\ \A v, w \in 1..Len(pool.workers) :
          (v # w /\ pool.workers[v].path = pool.workers[w].path) =>
              \/ pool.workers[v].state \in {"emitted", "done", "aborted"}
              \/ pool.workers[w].state \in {"emitted", "done", "aborted"}
    /\ \A i, j \in 1..Len(pool.legend_order) :
          i # j => pool.legend_order[i] # pool.legend_order[j]

====
